---- MODULE Spec2Model ----
(***************************************************************************)
(* Model of vaultk8s' VaultClient (src/src/client.rs): the credential      *)
(* cache `auth`, the async operations login and get_secret split at their  *)
(* await points, and the read-only query is_logged.                        *)
(*                                                                         *)
(* Conventions.  A Rust String is a tuple of one-character strings         *)
(* ("a\nb" is <<"a", "\n", "b">>), an Option<T> is a set with at most one  *)
(* element ({} is None, {x} is Some(x)), the HashMap `auth` is a function  *)
(* whose DOMAIN is the set of keys present, and an Instant is a number of  *)
(* seconds on the clock `now`.                                             *)
(***************************************************************************)
EXTENDS Integers, Sequences, FiniteSets, TLC

\* ------------------------------------------------------------- bounds

\* The clock runs from 0 to MaxTime seconds.
MaxTime == 2
\* The server reports lease durations of 0..MaxLease seconds.
MaxLease == 1

\* ---------------------------------------------------------- constants

\* StatusCode::OK
StatusOK == 200

\* The callers: each runs one call on the client at a time.
Tasks == {"T1", "T2"}
\* The role names callers pass.
Roles == {"r1", "r2"}
\* The statuses the server answers with.
Statuses == {StatusOK, 403, 500}
\* The identity token read at construction.
Jwt == <<"j">>
\* The client tokens the server hands out ("" included).
Tokens == {<< >>, <<"t">>}
\* The error strings the server reports.
A == <<"a">>
B == <<"b">>
\* The kwargs callers pass: None, or a list of pairs (empty, one pair, a key twice,
\* a key twice around another key).
KwargsValues ==
  {{}, {<< >>}, {<< <<"k1", "v1">> >>},
   {<< <<"k1", "v1">>, <<"k1", "v2">> >>}, {<< <<"k1", "v2">>, <<"k1", "v1">> >>},
   {<< <<"k1", "v1">>, <<"k2", "v1">>, <<"k1", "v2">> >>}}
\* The keys of the kwargs, in the order in which a serde_json::Map yields them.
JsonKeys == <<"k1", "k2">>

VARIABLES
  auth,    \* VaultClient.auth: role -> Auth, for the roles that have a record
  now,     \* the monotonic clock Auth reads (Instant::now())
  pc,      \* per task: "idle", or the await point its call is suspended at
  arg,     \* per task: `role` of the login in progress (NoRole otherwise: get_secret
           \* reads `role` before its first await only)
  status,  \* per task: `status` of the response being handled (0: none)
  calls,   \* per task: requests the call in progress has handed to the HttpClient
  ev       \* what the last step did that its caller or the server can see

vars == <<auth, now, pc, arg, status, calls, ev>>

\* ------------------------------------------------------------ Option

None == {}
Some(x) == {x}
is_some(o) == o # {}
unwrap(o) == CHOOSE x \in o : TRUE
unwrap_or(o, d) == IF o = {} THEN d ELSE CHOOSE x \in o : TRUE
\* Option::filter(P) of o is written {x \in o : P(x)}, Option::map(f) {f(x) : x \in o}.

\* ------------------------------------------------- serde_json::Value

JNull == [tag |-> "null", s |-> << >>, n |-> 0, b |-> FALSE]
JStr(x) == [tag |-> "string", s |-> x, n |-> 0, b |-> FALSE]
JNum(x) == [tag |-> "number", s |-> << >>, n |-> x, b |-> FALSE]
JBool(x) == [tag |-> "bool", s |-> << >>, n |-> 0, b |-> x]

\* Value::as_str: Some for a JSON string only.
as_str(v) == IF v.tag = "string" THEN Some(v.s) ELSE None
\* Value::as_u64: Some for a non-negative integer only.
as_u64(v) == IF v.tag = "number" /\ v.n >= 0 THEN Some(v.n) ELSE None
\* Value::as_bool: Some for a JSON boolean only.
as_bool(v) == IF v.tag = "bool" THEN Some(v.b) ELSE None

\* ------------------------------------------------ Auth (crate::auth)

\* Auth::new(client_token, lease_duration: Option<Duration>), created at `now`.
Auth_new(client_token, lease_duration) ==
  [client_token |-> client_token,
   expire |-> {now + d : d \in lease_duration}]

\* Auth::is_valid: the expiry is absent or still in the future.
is_valid(v) == \A e \in v.expire : now < e

\* Auth::to_renew: the expiry is present and has been reached.
to_renew(v) == \E e \in v.expire : now >= e

\* ------------------------------------------- HashMap<String, Auth>

\* HashMap::new
HashMap_new == [r \in {} |-> Auth_new(<< >>, None)]
\* HashMap::get
get(m, k) == IF k \in DOMAIN m THEN Some(m[k]) ELSE None
\* An insert that keeps the old value of a key already present (entry().or_insert).
insert_keeps_old(m, k, v) == [x \in DOMAIN m \cup {k} |-> IF x \in DOMAIN m THEN m[x] ELSE v]
\* An insert into a cache of one entry: the other keys are forgotten.
insert_clears(m, k, v) == [x \in {k} |-> v]
\* An insert that stores nothing.
insert_dropped(m, k, v) == m
\* HashMap::insert: the old value for the key, if any, is forgotten.
insert(m, k, v) == [x \in DOMAIN m \cup {k} |-> IF x = k THEN v ELSE m[x]]

\* -------------------------------------------------------- requests

\* serde_json::Map insert, and the fold of get_secret over the kwargs.
Map_new == [k \in {} |-> ""]
Map_insert(m, k, v) == [x \in DOMAIN m \cup {k} |-> IF x = k THEN v ELSE m[x]]
\* A fold that keeps the first value of a key (entry().or_insert).
RECURSIVE fold_kwargs_first_wins(_, _)
fold_kwargs_first_wins(m, kwargs) ==
  IF kwargs = << >> THEN m
  ELSE fold_kwargs_first_wins(
         IF Head(kwargs)[1] \in DOMAIN m THEN m
         ELSE Map_insert(m, Head(kwargs)[1], Head(kwargs)[2]),
         Tail(kwargs))
RECURSIVE fold_kwargs(_, _)
fold_kwargs(m, kwargs) ==
  IF kwargs = << >> THEN m
  ELSE fold_kwargs(Map_insert(m, Head(kwargs)[1], Head(kwargs)[2]), Tail(kwargs))

\* The body of a get_secret request: Value::Null or Value::Object(map).
BodyNull == [tag |-> "null", obj |-> Map_new]
BodyObject(o) == [tag |-> "object", obj |-> o]
kwargs_body(kwargs) ==
  unwrap_or({BodyObject(fold_kwargs(Map_new, k)) : k \in kwargs}, BodyNull)


\* Value::to_string of the values kwargs_body builds: the JSON text as the tuple of
\* its lexemes (punctuation, and the keys and values between their quotes).
RECURSIVE members_to_string(_, _)
members_to_string(obj, i) ==
  IF i > Len(JsonKeys) THEN << >>
  ELSE IF JsonKeys[i] \notin DOMAIN obj THEN members_to_string(obj, i + 1)
  ELSE LET rest == members_to_string(obj, i + 1)
       IN  <<"\"", JsonKeys[i], "\"", ":", "\"", obj[JsonKeys[i]], "\"">> \o
           (IF rest = << >> THEN << >> ELSE <<",">> \o rest)
to_string(v) ==
  IF v.tag = "null" THEN <<"null">>
  ELSE <<"{">> \o members_to_string(v.obj, 1) \o <<"}">>

\* A request handed to the HttpClient; `body` is the text of a get_secret body (the
\* body of a login request is made of `role` and `jwt`).
NoRequest == [kind |-> "none", role |-> "", jwt |-> << >>, token |-> << >>, body |-> << >>]
\* POST {url}/auth/kubernetes/login with body {"role": role, "jwt": jwt}
LoginRequest(role) ==
  [kind |-> "login", role |-> role, jwt |-> Jwt, token |-> << >>, body |-> << >>]
\* <method> {url}/{path} with header X-Vault-Token and the kwargs body
SecretRequest(token, body) ==
  [kind |-> "secret", role |-> "", jwt |-> << >>, token |-> token, body |-> body]

\* --------------------------------------------------------- results

\* Secret::new(data, duration)
Secret_new(data, duration) == [data |-> data, duration |-> duration]

Res(kind, st, msg, sec, b) ==
  [kind |-> kind, status |-> st, msg |-> msg, secret |-> sec, b |-> b]
NoResult == Res("none", 0, << >>, None, FALSE)
\* the caller dropped the future at an await point
Cancelled == Res("cancelled", 0, << >>, None, FALSE)
\* Option::unwrap of None
Panicked == Res("panic", 0, << >>, None, FALSE)
\* is_logged's bool
Bool(b) == Res("bool", 0, << >>, None, b)
\* login's Ok(&Auth): a reference to the cache's entry for the call's role
Ok_auth == Res("Ok", 0, << >>, None, FALSE)
Ok_secret(s) == Res("Ok", 0, << >>, Some(s), FALSE)
NotLogged == Res("NotLogged", 0, << >>, None, FALSE)
ClientError == Res("ClientError", 0, << >>, None, FALSE)
HttpError == Res("HttpError", 0, << >>, None, FALSE)
ParseError == Res("ParseError", 0, << >>, None, FALSE)
VaultError(st, msg) == Res("VaultError", st, msg, None, FALSE)

\* A join that forgets the separator (concat).
RECURSIVE join_concat(_, _)
join_concat(strs, sep) ==
  IF strs = << >> THEN << >> ELSE strs[1] \o join_concat(Tail(strs), sep)

\* [String]::join(sep)
RECURSIVE join(_, _)
join(strs, sep) ==
  IF strs = << >> THEN << >>
  ELSE IF Len(strs) = 1 THEN strs[1]
  ELSE strs[1] \o sep \o join(Tail(strs), sep)

\* ---------------------------------------------------------- events

NoRole == ""
\* What a step did: kind "request" (a request handed to the HttpClient), "return"
\* (a call of `op` for `role` returned `res`, having made `calls` requests),
\* "resume" (a response arrived and the call awaits its body), "tick".
Ev(kind, op, role, n, req, res) ==
  [kind |-> kind, op |-> op, role |-> role, calls |-> n, req |-> req, res |-> res]
NoEvent == Ev("none", "", NoRole, 0, NoRequest, NoResult)
Request(op, role, n, req) == Ev("request", op, role, n, req, NoResult)
Return(op, role, n, res) == Ev("return", op, role, n, NoRequest, res)
Resume(op, role, n) == Ev("resume", op, role, n, NoRequest, NoResult)

\* ------------------------------------------------ server responses

\* The values a field of a response body may hold.
TokenValues == {JNull} \cup {JStr(x) : x \in Tokens}
LeaseValues == {JNull, JNum(-1)} \cup {JNum(d) : d \in 0..MaxLease}
RenewableValues == {JNull, JStr(<<"t">>), JBool(TRUE), JBool(FALSE)}
DataValues == {JNull, JStr(<<"s">>)}
\* The lease_duration of a secret: the values above, and leases of 3 and 90 seconds.
\* (Every lease stays far below 2^63, where `o * 2` cannot overflow a u64.)
SecretLeaseValues == LeaseValues \cup {JNum(3), JNum(90)}

\* A login response body: None when the bytes are not JSON.
\* (A missing "auth" object reads as three nulls.)
AuthBodies ==
  {None} \cup
  {Some([client_token |-> c, lease_duration |-> l, renewable |-> r]) :
     c \in TokenValues, l \in LeaseValues, r \in RenewableValues}

\* A secret response body: None when the bytes are not JSON; a JSON object (or
\* null, which reads as an object without fields), where lease_duration may be
\* missing (None); or another JSON value (an array, a string, a number).
SecretBodies ==
  {None, Some([object |-> FALSE, lease_duration |-> None, data |-> JNull])} \cup
  {Some([object |-> TRUE, lease_duration |-> l, data |-> d]) :
     l \in {None} \cup {Some(x) : x \in SecretLeaseValues}, d \in DataValues}

\* An error body {"errors": [...]}: None when it does not parse as VaultErrors.
ErrorLists == {<< >>, <<A>>, <<A, B>>, <<B, A>>}
ErrorBodies == {None} \cup {Some([errors |-> e]) : e \in ErrorLists}

\* ------------------------------------------------------- borrowing

LoginPcs == {"login_post", "login_json", "login_errors"}
SecretPcs == {"secret_send", "secret_json", "secret_errors"}

\* A shared borrow where login needs an exclusive one (interior mutability).
borrow_mut_shared(t) == pc[t] = "idle"
\* `&mut self`: no other call on the client is in progress.
borrow_mut(t) == \A u \in Tasks : pc[u] = "idle"
\* `&self`: no `&mut self` call is in progress.
borrow(t) == pc[t] = "idle" /\ \A u \in Tasks : pc[u] \notin LoginPcs

\* --------------------------------------------------------- client

\* VaultClient::new, on success
Init ==
  /\ auth = HashMap_new
  /\ now = 0
  /\ pc = [t \in Tasks |-> "idle"]
  /\ arg = [t \in Tasks |-> NoRole]
  /\ status = [t \in Tasks |-> 0]
  /\ calls = [t \in Tasks |-> 0]
  /\ ev = NoEvent

\* The call of task t returns res: its frame is gone.
returns(t, op, res) ==
  /\ pc' = [pc EXCEPT ![t] = "idle"]
  /\ arg' = [arg EXCEPT ![t] = NoRole]
  /\ status' = [status EXCEPT ![t] = 0]
  /\ calls' = [calls EXCEPT ![t] = 0]
  /\ ev' = Return(op, arg[t], calls[t], res)

\* is_logged without its filter: any record counts.
is_logged_unfiltered(role) == is_some(get(auth, role))

\* is_logged with the `!` before to_renew forgotten.
is_logged_renew_inverted(role) ==
  is_some({v \in get(auth, role) : is_valid(v) /\ to_renew(v)})

\* VaultClient::is_logged
is_logged(role) ==
  is_some({v \in get(auth, role) : is_valid(v) /\ ~to_renew(v)})

\* A caller asks is_logged(role).
is_logged_call(t, role) ==
  /\ borrow(t)
  /\ ev' = Return("is_logged", role, calls[t], Bool(is_logged(role)))
  /\ UNCHANGED <<auth, now, pc, arg, status, calls>>

\* login, line 94: Ok(self.auth.get(role).unwrap())
login_return(role, m) ==
  IF get(m, role) = None THEN Panicked ELSE Ok_auth

\* login without the is_logged test: every call posts a login request.
login_always_posts(t, role) ==
  /\ borrow_mut(t)
  /\ pc' = [pc EXCEPT ![t] = "login_post"]
  /\ arg' = [arg EXCEPT ![t] = role]
  /\ calls' = [calls EXCEPT ![t] = calls[t] + 1]
  /\ ev' = Request("login", role, calls'[t], LoginRequest(role))
  /\ UNCHANGED <<auth, now, status>>

\* login, from the call to the first await (or to the return on a cache hit).
login(t, role) ==
  /\ borrow_mut(t)
  /\ IF is_logged(role)
     THEN /\ ev' = Return("login", role, calls[t], login_return(role, auth))
          /\ UNCHANGED <<auth, now, pc, arg, status, calls>>
     ELSE /\ pc' = [pc EXCEPT ![t] = "login_post"]
          /\ arg' = [arg EXCEPT ![t] = role]
          /\ calls' = [calls EXCEPT ![t] = calls[t] + 1]
          /\ ev' = Request("login", role, calls'[t], LoginRequest(role))
          /\ UNCHANGED <<auth, now, status>>

\* login: post_async(...).await completes with a transport error or a response.
login_post(t, ok, st) ==
  /\ pc[t] = "login_post"
  /\ IF ~ok
     THEN returns(t, "login", ClientError)
     ELSE /\ pc' = [pc EXCEPT ![t] = IF st = StatusOK THEN "login_json" ELSE "login_errors"]
          /\ status' = [status EXCEPT ![t] = st]
          /\ ev' = Resume("login", arg[t], calls[t])
          /\ UNCHANGED <<arg, calls>>
  /\ UNCHANGED <<auth, now>>

\* login_lease without the test of `renewable`: every token gets an expiry.
login_lease_ignores_renewable(auth_value) ==
  Some(unwrap_or(as_u64(auth_value.lease_duration), 0))

\* login, lines 70-81: the Option<Duration> handed to Auth::new.
login_lease(auth_value) ==
  IF unwrap_or(as_bool(auth_value.renewable), FALSE)
  THEN Some(unwrap_or(as_u64(auth_value.lease_duration), 0))
  ELSE None

\* login, lines 74-81: the Auth built from the parsed response.
login_auth(auth_value) ==
  Auth_new(unwrap_or(as_str(auth_value.client_token), << >>), login_lease(auth_value))

\* login_json that returns Ok on a parsed body without installing the record.
login_json_no_install(t, body) ==
  /\ pc[t] = "login_json"
  /\ returns(t, "login", IF body = None THEN ParseError ELSE Ok_auth)
  /\ UNCHANGED <<auth, now>>

\* login: res.json().await of a 200 response completes, with `body` parsed or not.
login_json(t, body) ==
  /\ pc[t] = "login_json"
  /\ IF body = None
     THEN /\ returns(t, "login", ParseError)
          /\ UNCHANGED auth
     ELSE /\ auth' = insert(auth, arg[t], login_auth(unwrap(body)))
          /\ returns(t, "login", login_return(arg[t], auth'))
  /\ UNCHANGED now

\* The error of a non-200 response, lines 86-90 and 148-152.
vault_error(st, body) ==
  IF body = None THEN ParseError
  ELSE VaultError(st, join(unwrap(body).errors, <<"\n">>))

\* login_errors that also drops the role's record when the server refuses the login.
login_errors_evicts(t, body) ==
  /\ pc[t] = "login_errors"
  /\ returns(t, "login", vault_error(status[t], body))
  /\ auth' = [x \in DOMAIN auth \ {arg[t]} |-> auth[x]]
  /\ UNCHANGED now

\* login: res.json().await of a non-200 response completes.
login_errors(t, body) ==
  /\ pc[t] = "login_errors"
  /\ returns(t, "login", vault_error(status[t], body))
  /\ UNCHANGED <<auth, now>>

\* secret_duration without its filter: a lease of 0 gives a window of 0 seconds.
secret_duration_unfiltered(secret_value) ==
  {(o * 2) \div 3 : o \in {unwrap_or(as_u64(x), 0) : x \in secret_value.lease_duration}}

\* get_secret, lines 139-143: the freshness window of the secret.
secret_duration(secret_value) ==
  {(o * 2) \div 3 :
     o \in {d \in {unwrap_or(as_u64(x), 0) : x \in secret_value.lease_duration} : d # 0}}

\* get_secret that logs in by itself when the role is not logged.
get_secret_auto_login(t, role, kwargs, valid) ==
  /\ borrow(t)
  /\ IF ~is_logged(role)
     THEN /\ pc' = [pc EXCEPT ![t] = "login_post"]
          /\ arg' = [arg EXCEPT ![t] = role]
          /\ calls' = [calls EXCEPT ![t] = calls[t] + 1]
          /\ ev' = Request("login", role, calls'[t], LoginRequest(role))
     ELSE IF ~valid
     THEN /\ ev' = Return("get_secret", role, calls[t], HttpError)
          /\ UNCHANGED <<pc, arg, calls>>
     ELSE /\ pc' = [pc EXCEPT ![t] = "secret_send"]
          /\ calls' = [calls EXCEPT ![t] = calls[t] + 1]
          /\ UNCHANGED arg
          /\ ev' = Request("get_secret", role, calls'[t],
                     SecretRequest(unwrap(get(auth, role)).client_token,
                                   to_string(kwargs_body(kwargs))))
  /\ UNCHANGED <<auth, now, status>>

\* get_secret without the `if let Some(auth)`: a missing record sends an empty token.
get_secret_unchecked(t, role, kwargs, valid) ==
  /\ borrow(t)
  /\ IF ~valid
     THEN /\ ev' = Return("get_secret", role, calls[t], HttpError)
          /\ UNCHANGED <<pc, arg, calls>>
     ELSE /\ pc' = [pc EXCEPT ![t] = "secret_send"]
          /\ calls' = [calls EXCEPT ![t] = calls[t] + 1]
          /\ UNCHANGED arg
          /\ ev' = Request("get_secret", role, calls'[t],
                     SecretRequest(unwrap_or({a.client_token : a \in get(auth, role)}, << >>),
                                   to_string(kwargs_body(kwargs))))
  /\ UNCHANGED <<auth, now, status>>

\* get_secret, from the call to the first await (or to an early return).
\* `valid`: Request::builder accepts the method, the uri and the header value.
get_secret(t, role, kwargs, valid) ==
  /\ borrow(t)
  /\ IF get(auth, role) = None
     THEN /\ ev' = Return("get_secret", role, calls[t], NotLogged)
          /\ UNCHANGED <<pc, arg, calls>>
     ELSE IF ~valid
     THEN /\ ev' = Return("get_secret", role, calls[t], HttpError)
          /\ UNCHANGED <<pc, arg, calls>>
     ELSE /\ pc' = [pc EXCEPT ![t] = "secret_send"]
          /\ calls' = [calls EXCEPT ![t] = calls[t] + 1]
          /\ UNCHANGED arg
          /\ ev' = Request("get_secret", role, calls'[t],
                     SecretRequest(unwrap(get(auth, role)).client_token,
                                   to_string(kwargs_body(kwargs))))
  /\ UNCHANGED <<auth, now, status>>

\* get_secret: send_async(request).await completes.
secret_send(t, ok, st) ==
  /\ pc[t] = "secret_send"
  /\ IF ~ok
     THEN returns(t, "get_secret", ClientError)
     ELSE /\ pc' = [pc EXCEPT ![t] = IF st = StatusOK THEN "secret_json" ELSE "secret_errors"]
          /\ status' = [status EXCEPT ![t] = st]
          /\ ev' = Resume("get_secret", arg[t], calls[t])
          /\ UNCHANGED <<arg, calls>>
  /\ UNCHANGED <<auth, now>>

\* get_secret, lines 139-145: the secret of a parsed response.  Indexing a mutable
\* Value that is neither an object nor null by "data" panics.
secret_of(secret_value) ==
  IF secret_value.object
  THEN Ok_secret(Secret_new(secret_value.data, secret_duration(secret_value)))
  ELSE Panicked

\* get_secret: res.json().await of a 200 response completes.
secret_json(t, body) ==
  /\ pc[t] = "secret_json"
  /\ returns(t, "get_secret", IF body = None THEN ParseError ELSE secret_of(unwrap(body)))
  /\ UNCHANGED <<auth, now>>

\* get_secret: res.json().await of a non-200 response completes.
secret_errors(t, body) ==
  /\ pc[t] = "secret_errors"
  /\ returns(t, "get_secret", vault_error(status[t], body))
  /\ UNCHANGED <<auth, now>>

\* The caller drops the future of a call suspended at an await point.
cancel(t) ==
  /\ pc[t] # "idle"
  /\ returns(t, IF pc[t] \in LoginPcs THEN "login" ELSE "get_secret", Cancelled)
  /\ UNCHANGED <<auth, now>>

\* A second passes on the clock.
Tick ==
  /\ now < MaxTime
  /\ now' = now + 1
  /\ ev' = Ev("tick", "", NoRole, 0, NoRequest, NoResult)
  /\ UNCHANGED <<auth, pc, arg, status, calls>>

Next ==
  \/ \E t \in Tasks, r \in Roles : is_logged_call(t, r)
  \/ \E t \in Tasks, r \in Roles : login(t, r)
  \/ \E t \in Tasks, ok \in BOOLEAN, st \in Statuses : login_post(t, ok, st)
  \/ \E t \in Tasks, body \in AuthBodies : login_json(t, body)
  \/ \E t \in Tasks, body \in ErrorBodies : login_errors(t, body)
  \/ \E t \in Tasks, r \in Roles, k \in KwargsValues, valid \in BOOLEAN :
       \* (a request that cannot be built never shows its body: one kwargs will do)
       /\ valid \/ k = None
       /\ get_secret(t, r, k, valid)
  \/ \E t \in Tasks, ok \in BOOLEAN, st \in Statuses : secret_send(t, ok, st)
  \/ \E t \in Tasks, body \in SecretBodies : secret_json(t, body)
  \/ \E t \in Tasks, body \in ErrorBodies : secret_errors(t, body)
  \/ \E t \in Tasks : cancel(t)
  \/ Tick

Spec == Init /\ [][Next]_vars

\* ------------------------------------------------------------ claims

\* The words of the claims about a role's record.
HasRecord(r) == r \in DOMAIN auth
\* the expiry is absent
NonExpiring(r) == HasRecord(r) /\ auth[r].expire = {}
\* the expiry is present and has passed (or is reached)
Expired(r) == HasRecord(r) /\ \E e \in auth[r].expire : e <= now
\* the expiry is absent or still in the future
Valid(r) == HasRecord(r) /\ (auth[r].expire = {} \/ \E e \in auth[r].expire : e > now)
\* the expiry is present and the time left until it has reached zero
NeedsRenewal(r) == HasRecord(r) /\ \E e \in auth[r].expire : e - now <= 0

\* A step of a login call of task t after its first await.
LoginContinues(t) ==
  \/ \E ok \in BOOLEAN, st \in Statuses : login_post(t, ok, st)
  \/ \E body \in AuthBodies : login_json(t, body)
  \/ \E body \in ErrorBodies : login_errors(t, body)
  \/ pc[t] \in LoginPcs /\ cancel(t)

\* C1: is_logged(role) answers true exactly when a record exists for the role, the
\* record is valid (expiry absent or in the future) and it does not need renewal;
\* the call changes neither the cache nor any other state of the client.
C1_IsLoggedIffUsable ==
  [][\A t \in Tasks, r \in Roles :
       is_logged_call(t, r) =>
         /\ ev'.res.b = (HasRecord(r) /\ Valid(r) /\ ~NeedsRenewal(r))
         /\ UNCHANGED <<auth, now, pc, arg, status, calls>>]_vars

\* C1 witness: is_logged answered false for a role that has a record (an expired one).
C1_Witness ==
  /\ ev.kind = "return" /\ ev.op = "is_logged" /\ ev.res = Bool(FALSE)
  /\ HasRecord(ev.role) /\ Expired(ev.role)

\* C2: a login(role) called while is_logged(role) is true makes no request, leaves
\* the whole cache (and the client) unchanged and returns the cached record; as
\* is_logged(role) is still true afterwards, a repeated call does the same.
C2_LoginCacheHit ==
  [][\A t \in Tasks, r \in Roles :
       (is_logged(r) /\ login(t, r)) =>
         /\ ev' = Return("login", r, 0, Ok_auth)
         /\ auth' = auth /\ HasRecord(r)
         /\ UNCHANGED <<now, pc, arg, status, calls>>
         /\ is_logged(r)']_vars

\* C2 witness: a login returned the cached record without a request.
C2_Witness ==
  /\ ev = Return("login", ev.role, 0, Ok_auth)
  /\ is_logged(ev.role)

\* C3 (as claimed): for a role whose record has expired, is_logged is false, a login
\* makes exactly one request, and on a 200 response it installs a new record in
\* place of the old one.
C3_Original ==
  [][/\ \A r \in Roles : Expired(r) => ~is_logged(r)
     /\ \A t \in Tasks :
       /\ \A r \in Roles :
            (Expired(r) /\ login(t, r)) => ev' = Request("login", r, 1, LoginRequest(r))
       /\ \/ /\ ev'.kind # "request"
             /\ ev'.kind = "return" => ev'.calls = 1
          \/ ~(pc[t] \in LoginPcs /\ LoginContinues(t))
       /\ (pc[t] = "login_json" /\ Expired(arg[t])) =>
            \A body \in AuthBodies :
              \/ /\ ev' = Return("login", arg[t], 1, Ok_auth)
                 /\ DOMAIN auth' = DOMAIN auth
                 /\ \A e \in auth'[arg[t]].expire : e >= now
                 /\ \A r \in Roles \ {arg[t]} : HasRecord(r) => auth'[r] = auth[r]
              \/ ~login_json(t, body)]_vars

\* C3 (amended): for a role whose record has expired, is_logged is false, a login
\* makes exactly one request, and on a 200 response whose body parses as JSON it
\* installs the record built from that body in place of the old one, the role
\* still having one record.
C3_ExpiredRelogin ==
  [][/\ \A r \in Roles : Expired(r) => ~is_logged(r)
     /\ \A t \in Tasks :
       /\ \A r \in Roles :
            (Expired(r) /\ login(t, r)) => ev' = Request("login", r, 1, LoginRequest(r))
       /\ \/ /\ ev'.kind # "request"
             /\ ev'.kind = "return" => ev'.calls = 1
          \/ ~(pc[t] \in LoginPcs /\ LoginContinues(t))
       /\ (pc[t] = "login_json" /\ Expired(arg[t])) =>
            \A body \in AuthBodies \ {None} :
              \/ /\ ev' = Return("login", arg[t], 1, Ok_auth)
                 /\ DOMAIN auth' = DOMAIN auth
                 /\ auth'[arg[t]].client_token =
                      unwrap_or(as_str(unwrap(body).client_token), << >>)
                 /\ \A e \in auth'[arg[t]].expire : e >= now
                 /\ \A r \in Roles \ {arg[t]} : HasRecord(r) => auth'[r] = auth[r]
              \/ ~login_json(t, body)]_vars

\* C3 witness: the login of a role whose record has expired has made its request,
\* got a 200 response and awaits its body.
C3_Witness ==
  \E t \in Tasks :
    /\ pc[t] = "login_json" /\ calls[t] = 1
    /\ Expired(arg[t]) /\ auth[arg[t]].client_token = << >>

\* C4: once a role has a non-expiring record, is_logged(role) is true in every later
\* state whatever the clock shows, no step replaces the record, and every
\* login(role) returns it without a request.
C4_NonExpiringStaysLogged ==
  [][\A r \in Roles :
       NonExpiring(r) =>
         /\ is_logged(r)
         /\ HasRecord(r)' /\ auth'[r] = auth[r]
         /\ \A t \in Tasks : login(t, r) => ev' = Return("login", r, 0, Ok_auth)]_vars

\* C4 witness: time has passed since a non-expiring record was installed and a
\* login for its role returned it without a request.
C4_Witness ==
  /\ now = MaxTime
  /\ ev = Return("login", ev.role, 0, Ok_auth)
  /\ NonExpiring(ev.role)

\* C5: a get_secret for a role without a record fails with the not-logged-in error,
\* sends no request and leaves the cache unchanged.
C5_NotLoggedWithoutRecord ==
  [][\A t \in Tasks, r \in Roles :
       ~HasRecord(r) =>
         \/ /\ ev' = Return("get_secret", r, 0, NotLogged)
            /\ auth' = auth
            /\ UNCHANGED <<pc, calls>>
         \/ ~\E k \in KwargsValues, valid \in BOOLEAN : get_secret(t, r, k, valid)]_vars

\* C5 witness: a get_secret returned the not-logged-in error for a role without a
\* record while the other role has one.
C5_Witness ==
  /\ ev = Return("get_secret", ev.role, 0, NotLogged)
  /\ ~HasRecord(ev.role)
  /\ \E r \in Roles : HasRecord(r)

\* A step of a get_secret call of task t after its first await.
SecretContinues(t) ==
  \/ \E ok \in BOOLEAN, st \in Statuses : secret_send(t, ok, st)
  \/ \E body \in SecretBodies : secret_json(t, body)
  \/ \E body \in ErrorBodies : secret_errors(t, body)
  \/ pc[t] \in SecretPcs /\ cancel(t)

\* A step of a get_secret call of task t.
SecretStep(t) ==
  \/ \E r \in Roles, k \in KwargsValues, valid \in BOOLEAN : get_secret(t, r, k, valid)
  \/ SecretContinues(t)

\* C6 (as claimed): get_secret sends a request only when the role's record is valid,
\* never one carrying the token of a record whose expiry has passed.
C6_Original ==
  [][\A t \in Tasks, r \in Roles :
       (~Valid(r) /\ ev'.kind = "request") =>
         ~\E k \in KwargsValues, valid \in BOOLEAN : get_secret(t, r, k, valid)]_vars

\* C6 (amended): get_secret sends a request only when a record exists in the cache
\* for the role, valid or not, and the request carries that record's token.
C6_RequestOnlyWithRecord ==
  [][ev'.kind = "request" =>
       \A t \in Tasks :
         /\ \A r \in Roles :
              \/ /\ HasRecord(r)
                 /\ ev'.req.kind = "secret"
                 /\ ev'.req.token = auth[r].client_token
              \/ ~\E k \in KwargsValues, valid \in BOOLEAN : get_secret(t, r, k, valid)
         /\ pc[t] \in SecretPcs => ~SecretContinues(t)]_vars

\* C6 witness: a get_secret has just sent the token of a record whose expiry has
\* passed.
C6_Witness ==
  /\ ev.kind = "request" /\ ev.op = "get_secret"
  /\ HasRecord(ev.role)
  /\ \E e \in auth[ev.role].expire : e < now
  /\ ev.req.token = auth[ev.role].client_token
  /\ ev.req.token # << >>

\* C7: no step of a get_secret call starts a login or changes the cache, and no
\* step of the client changes the cache while a get_secret call is in progress:
\* whatever the call returns, the cache is the one it started with.
C7_GetSecretKeepsCache ==
  [][\A t \in Tasks :
       /\ \/ /\ auth' = auth
             /\ pc'[t] \notin LoginPcs
             /\ ev'.op = "get_secret" /\ ev'.req.kind # "login"
          \/ ~SecretStep(t)
       /\ pc[t] \in SecretPcs => auth' = auth]_vars

\* C7 witness: a get_secret returned a secret while both roles have a record.
C7_Witness ==
  /\ ev.kind = "return" /\ ev.op = "get_secret" /\ ev.res.kind = "Ok" /\ ev.calls = 1
  /\ DOMAIN auth = Roles

\* C8: the cache changes only in the step of a login that has parsed the body of a
\* 200 response and returns Ok; a login step that ends with a transport error, a
\* parse error, a server error or a cancellation, and every step before that,
\* leaves the cache as it was.
C8_FailedLoginKeepsCache ==
  [][/\ auth' # auth =>
          \E t \in Tasks :
            /\ pc[t] = "login_json"
            /\ \E body \in AuthBodies \ {None} : login_json(t, body)
            /\ ev' = Return("login", arg[t], 1, Ok_auth)
     /\ \A t \in Tasks :
          /\ \A r \in Roles : login(t, r) => auth' = auth
          /\ \/ auth' = auth
             \/ ev'.kind = "return" /\ ev'.res.kind = "Ok"
             \/ ~(pc[t] \in LoginPcs /\ LoginContinues(t))]_vars

\* C8 witness: a login for a role that has a record failed with a parse error.
C8_Witness ==
  /\ ev = Return("login", ev.role, 1, ParseError)
  /\ HasRecord(ev.role)

\* The strings of e joined with newlines, built from the left.
RECURSIVE JoinedWithNewlines(_, _)
JoinedWithNewlines(e, n) ==
  IF n = 0 THEN << >>
  ELSE IF n = 1 THEN e[1]
  ELSE JoinedWithNewlines(e, n - 1) \o <<"\n">> \o e[n]

\* C9: for login and for get_secret, a non-200 response whose body is a well-formed
\* error list gives a server error with the response's status and the error
\* strings joined with newlines in their order, and leaves the cache unchanged.
C9_ServerError ==
  [][\A t \in Tasks :
       /\ pc[t] = "login_errors" =>
            \A e \in ErrorLists :
              login_errors(t, Some([errors |-> e])) =>
                /\ ev' = Return("login", arg[t], 1,
                            VaultError(status[t], JoinedWithNewlines(e, Len(e))))
                /\ status[t] # StatusOK
                /\ auth' = auth
       /\ pc[t] = "secret_errors" =>
            \A e \in ErrorLists :
              secret_errors(t, Some([errors |-> e])) =>
                /\ ev' = Return("get_secret", NoRole, 1,
                            VaultError(status[t], JoinedWithNewlines(e, Len(e))))
                /\ status[t] # StatusOK
                /\ auth' = auth]_vars

\* C9 witness: a login answered 403 with {"errors": ["a", "b"]} returned the server
\* error (403, "a\nb").
C9_Witness ==
  /\ ev.kind = "return" /\ ev.op = "login"
  /\ ev.res = VaultError(403, <<"a", "\n", "b">>)

\* C10: a successful login installs a record whose expiry is absent when the
\* response's renewable flag is false or missing (or no boolean), whatever its
\* lease_duration, and is now + lease_duration (0 when missing or no unsigned
\* integer) when renewable is true.
C10_InstalledExpiry ==
  [][\A t \in Tasks :
       pc[t] = "login_json" =>
         \A c \in TokenValues, l \in LeaseValues, rn \in RenewableValues :
           \/ /\ ev'.res = Ok_auth
              /\ arg[t] \in DOMAIN auth'
              /\ auth'[arg[t]].expire =
                   IF rn = JBool(TRUE)
                   THEN {now + (IF l.tag = "number" /\ l.n >= 0 THEN l.n ELSE 0)}
                   ELSE {}
           \/ ~login_json(t, Some([client_token |-> c, lease_duration |-> l,
                                   renewable |-> rn]))]_vars

\* C10 witness: a login has just installed a record expiring MaxLease seconds from
\* now, beside a record without expiry.
C10_Witness ==
  /\ ev = Return("login", ev.role, 1, Ok_auth)
  /\ HasRecord(ev.role) /\ auth[ev.role].expire = {now + MaxLease}
  /\ \E r \in Roles : NonExpiring(r)

\* The whole seconds in two thirds of n seconds.
TwoThirds(n) == CHOOSE w \in 0..n : 3 * w <= 2 * n /\ 2 * n < 3 * (w + 1)

\* The window claimed for each lease_duration a response may hold (None: missing).
FreshnessWindow ==
  [l \in {None} \cup {Some(x) : x \in SecretLeaseValues} |->
     IF \E x \in l : x.tag = "number" /\ x.n > 0
     THEN Some(TwoThirds(unwrap(l).n))
     ELSE None]

\* C11: a get_secret that returns a secret gives it no freshness window when the
\* response's lease_duration is missing or zero (or is no unsigned integer, which
\* reads as zero), and otherwise a window of floor(lease_duration * 2 / 3) seconds;
\* a lease of 90 seconds gives 60.  (A step that returns a secret with other data
\* than d is no step for a response whose data is d.)
C11_FreshnessWindow ==
  [][/\ FreshnessWindow[None] = None
     /\ FreshnessWindow[Some(JNum(0))] = None
     /\ FreshnessWindow[Some(JNum(90))] = Some(60)
     /\ \A t \in Tasks :
          (pc[t] = "secret_json" /\ pc'[t] = "idle") =>
            \A l \in DOMAIN FreshnessWindow, d \in DataValues :
              \/ ev'.res = Ok_secret(Secret_new(d, FreshnessWindow[l]))
              \/ ev'.res.kind = "Ok" /\ \A s \in ev'.res.secret : s.data # d
              \/ ~secret_json(t, Some([object |-> TRUE, lease_duration |-> l,
                                       data |-> d]))]_vars

\* C11 witness: a get_secret returned a secret whose freshness window is 60 seconds.
C11_Witness ==
  /\ ev.kind = "return" /\ ev.op = "get_secret" /\ ev.res.kind = "Ok"
  /\ \E s \in ev.res.secret : s.duration = Some(60)

\* C12 (as claimed): in every reachable state, every record of the cache has a
\* non-empty token.
C12_TokenNonEmpty ==
  \A r \in DOMAIN auth : auth[r].client_token # << >>

\* C13: when a login(role) has just returned Ok, the role's record is in the cache,
\* and a get_secret for the role issued next does not fail with the not-logged-in
\* error: unless the request cannot be built, it sends one request, carrying the
\* token of that record.
C13_LoginThenGetSecret ==
  [][(ev.kind = "return" /\ ev.op = "login" /\ ev.res = Ok_auth) =>
       /\ HasRecord(ev.role)
       /\ \A t \in Tasks, k \in KwargsValues, valid \in BOOLEAN :
            get_secret(t, ev.role, k, valid) =>
              /\ ev'.res # NotLogged
              /\ valid =>
                   /\ ev'.kind = "request" /\ ev'.calls = 1
                   /\ ev'.req.kind = "secret"
                   /\ ev'.req.token = auth[ev.role].client_token]_vars

\* C13 witness: a login has just installed a record and returned Ok, while the
\* other role's record holds another token.
C13_Witness ==
  /\ ev = Return("login", ev.role, 1, Ok_auth)
  /\ HasRecord(ev.role) /\ auth[ev.role].client_token = <<"t">>
  /\ \E r \in Roles \ {ev.role} : HasRecord(r) /\ auth[r].client_token = << >>

\* C14 (as claimed): while a login call for a role is in flight, having observed a
\* stale or absent record, a second login call for the same role can start on the
\* same client (and then observes the same record and makes its own request).
C14_Original ==
  \A t \in Tasks :
    \A u \in Tasks \ {t} :
      (pc[u] \in LoginPcs /\ pc[t] = "idle") => ENABLED login(t, arg[u])

\* C14 (amended): login borrows the client exclusively, so while a login call is in
\* progress no other call on the client is: at most one login request is in flight
\* at any time, and logins for the same role run one after the other.
C14_LoginsAreExclusive ==
  \A t \in Tasks :
    pc[t] \in LoginPcs =>
      /\ arg[t] \in Roles /\ ~is_logged(arg[t])
      /\ \A u \in Tasks \ {t} : pc[u] = "idle" /\ ~ENABLED login(u, arg[t])

\* C14 witness: a login for a role whose record has expired awaits the body of its
\* 200 response while the other task is idle.
C14_Witness ==
  \E t \in Tasks :
    /\ pc[t] = "login_json" /\ Expired(arg[t])
    /\ \A u \in Tasks \ {t} : pc[u] = "idle"

\* C15: a role gets a record only in the step of a login for that role that returns
\* Ok after its request; a record changes only in such a step, to the record built
\* from the response; and no step removes a record.  So a role that has a record
\* keeps having one, and a get_secret for it never fails with the not-logged-in
\* error, whether or not the record's expiry has passed.
C15_RecordLifecycle ==
  [][\A r \in Roles :
       /\ HasRecord(r) => r \in DOMAIN auth'
       /\ (r \in DOMAIN auth' /\ (HasRecord(r) => auth'[r] # auth[r])) =>
            /\ ev' = Return("login", r, 1, Ok_auth)
            /\ \E b \in AuthBodies \ {None} : auth'[r] = login_auth(unwrap(b))
       /\ HasRecord(r) =>
            \A t \in Tasks :
              \/ ev'.res # NotLogged
              \/ ~\E k \in KwargsValues, valid \in BOOLEAN : get_secret(t, r, k, valid)]_vars

\* C15 witness: at the end of the clock's range a get_secret has sent a request for
\* a role whose record expired before, while the other role never got a record.
C15_Witness ==
  /\ now = MaxTime
  /\ ev.kind = "request" /\ ev.op = "get_secret"
  /\ HasRecord(ev.role) /\ \E e \in auth[ev.role].expire : e < now
  /\ \E r \in Roles : ~HasRecord(r)

\* C16 (as claimed): for login and for get_secret, every non-200 response, whatever
\* its body, gives a server error carrying the response's status, never another
\* kind of error.
C16_NonOkIsServerError ==
  [][\A t \in Tasks :
       /\ pc[t] = "login_errors" =>
            \A body \in ErrorBodies :
              login_errors(t, body) =>
                ev'.res.kind = "VaultError" /\ ev'.res.status = status[t]
       /\ pc[t] = "secret_errors" =>
            \A body \in ErrorBodies :
              secret_errors(t, body) =>
                ev'.res.kind = "VaultError" /\ ev'.res.status = status[t]]_vars

\* C17 (as claimed): at the instant a login(role) returns Ok, is_logged(role) is
\* true, whatever response the login accepted as a success.
C17_LoggedAfterLogin ==
  (ev.kind = "return" /\ ev.op = "login" /\ ev.res = Ok_auth) => is_logged(ev.role)

\* The value of the last pair of kwargs whose key is k.
LastValue(kwargs, k) ==
  kwargs[CHOOSE i \in 1..Len(kwargs) :
           /\ kwargs[i][1] = k
           /\ \A j \in (i + 1)..Len(kwargs) : kwargs[j][1] # k][2]

\* The flat object of kwargs: each key that occurs, with its last value.
LastWins(kwargs) ==
  [k \in {kwargs[i][1] : i \in 1..Len(kwargs)} |-> LastValue(kwargs, k)]

\* The body claimed for each kwargs a caller may pass.
RequestBody ==
  [k \in KwargsValues |->
     IF k = None THEN <<"null">> ELSE to_string(BodyObject(LastWins(unwrap(k))))]

\* C18: the body of a get_secret request is the text null when kwargs is absent,
\* and otherwise the text of a flat JSON object that holds, for each key occurring
\* in kwargs, the value of the key's last occurrence: {} for the empty list, and
\* {"k1":"v2"} for [("k1","v1"),("k1","v2")].  (A step that sends another body than
\* the one get_secret builds from k is no step of a get_secret called with k.)
C18_RequestBody ==
  [][/\ RequestBody[Some(<< >>)] = <<"{", "}">>
     /\ RequestBody[Some(<< <<"k1", "v1">>, <<"k1", "v2">> >>)] =
          <<"{", "\"", "k1", "\"", ":", "\"", "v2", "\"", "}">>
     /\ \A t \in Tasks :
          (pc[t] = "idle" /\ pc'[t] = "secret_send") =>
            \A k \in KwargsValues :
              \/ ev'.kind = "request" /\ ev'.req.body = RequestBody[k]
              \/ ev'.req.body # to_string(kwargs_body(k))
              \/ ~get_secret(t, ev'.role, k, TRUE)]_vars

\* C18 witness: a get_secret called with [("k1","v1"),("k2","v1"),("k1","v2")] has
\* sent the body {"k1":"v2","k2":"v1"}.
C18_Witness ==
  /\ ev.kind = "request" /\ ev.op = "get_secret"
  /\ ev.req.body = <<"{", "\"", "k1", "\"", ":", "\"", "v2", "\"", ",",
                     "\"", "k2", "\"", ":", "\"", "v1", "\"", "}">>

\* C19: the lookup that ends login (line 94) never finds the cache without a record
\* for the role: no login call panics, and whenever a login returns Ok, on a cache
\* hit or after an install, the role has a record.
C19_LoginUnwrapNeverPanics ==
  (ev.kind = "return" /\ ev.op = "login") =>
    /\ ev.res # Panicked
    /\ ev.res.kind = "Ok" => get(auth, ev.role) # None

\* C19 witness: a login returned Ok after installing a record that is_logged already
\* reports as unusable.
C19_Witness ==
  /\ ev = Return("login", ev.role, 1, Ok_auth)
  /\ get(auth, ev.role) # None /\ ~is_logged(ev.role)

\* C20: no step of a login(role) call, from the call to its return (on a cache hit,
\* after an install, with an error or cancelled), changes the record, or the lack
\* of a record, of any other role.
C20_LoginFrame ==
  [][\A t \in Tasks :
       /\ \A r \in Roles :
            \/ \A x \in Roles \ {r} : get(auth', x) = get(auth, x)
            \/ ~login(t, r)
       /\ pc[t] \in LoginPcs =>
            \/ \A x \in Roles \ {arg[t]} : get(auth', x) = get(auth, x)
            \/ ~LoginContinues(t)]_vars

\* C20 witness: a login has installed a record for its role while the other role
\* holds an expired record with another token.
C20_Witness ==
  /\ ev = Return("login", ev.role, 1, Ok_auth)
  /\ \E x \in Roles \ {ev.role} :
       /\ Expired(x)
       /\ HasRecord(ev.role) /\ auth[x].client_token # auth[ev.role].client_token

====
